---- MODULE Spec2Model ----
(***************************************************************************)
(* NeuraControl (src/streamlit_app.py): the command extractor              *)
(* parse_device_commands, the serial transport get_arduino_connection /    *)
(* send_arduino_command, and the Streamlit script run that drives them     *)
(* (sidebar, 'Send Command', 'Clear History', device toggle buttons).      *)
(*                                                                         *)
(* A text is a sequence of one-character strings, so that str.lower() and  *)
(* the `in` substring test are computed, not assumed.                      *)
(***************************************************************************)
EXTENDS Integers, Sequences, FiniteSets, TLC

VARIABLES
    pc,             \* position of the script run ("idle" between runs)
    clicked,        \* the widget whose interaction triggered this run
    caller,         \* who called get_arduino_connection: test / status / send
    sender,         \* who called send_arduino_command: loop / button
    device_states,  \* st.session_state.device_states
    demo_mode,      \* st.session_state.demo_mode
    ai_responses,   \* len(st.session_state.ai_responses)
    ai_response,    \* the text send_ai_prompt returned in this run
    llm_failed,     \* client.chat.completions.create raised in this run
    commands,       \* the dict parse_device_commands returned, in insertion order
    idx,            \* number of loop iterations of `for device, state in commands.items()` started
    cur,            \* (device, state) argument of the running send_arduino_command
    arduino,        \* the Serial object of the running get_arduino_connection caller
    probe_open,     \* test_conn of get_arduino_connection is open
    leaked,         \* sessions whose last reference was dropped while still open
    session_log,    \* events on the Serial object `arduino`, newest last
    attempts,       \* devices send_arduino_command was invoked for in this run
    outcomes        \* what each finished send_arduino_command reported in this run

vars == <<pc, clicked, caller, sender, device_states, demo_mode, ai_responses,
          ai_response, llm_failed, commands, idx, cur, arduino, probe_open,
          leaked, session_log, attempts, outcomes>>

----------------------------------------------------------------------------
(* Bounds *)

\* longest text, in fragments, given to parse_device_commands on its own
MaxFrags == 3
\* longest language-model reply or error message, in fragments
MaxReplyFrags == 2
\* most entries of st.session_state.ai_responses
MaxHistory == 1
\* most unreferenced, still open sessions
MaxLeaked == 1

----------------------------------------------------------------------------
(* Program constants *)

\* time.sleep(0.5) after the probe connection is closed, in milliseconds
PROBE_SLEEP_MS == 500
\* time.sleep(2) after the connection is opened, in milliseconds
SETTLE_SLEEP_MS == 2000
\* time.sleep(0.1) after the write, in milliseconds
WRITE_SLEEP_MS == 100

\* Keys of st.session_state.device_states, in definition order.
Registry == <<"led", "fan", "heater", "lights">>

Devices == {Registry[i] : i \in 1..Len(Registry)}

RegistryIndex(d) == CHOOSE i \in 1..Len(Registry) : Registry[i] = d

----------------------------------------------------------------------------
(* Texts *)

UpperCase == <<"A", "B", "C", "D", "E", "F", "G", "H", "I", "J", "K", "L", "M",
               "N", "O", "P", "Q", "R", "S", "T", "U", "V", "W", "X", "Y", "Z">>

LowerCase == <<"a", "b", "c", "d", "e", "f", "g", "h", "i", "j", "k", "l", "m",
               "n", "o", "p", "q", "r", "s", "t", "u", "v", "w", "x", "y", "z">>

\* The lower-case letter of every upper-case letter.
LowerMap ==
    [c \in {UpperCase[i] : i \in 1..26} |->
        LowerCase[CHOOSE i \in 1..26 : UpperCase[i] = c]]

\* str.lower() of one character
LowerChar(c) == IF c \in DOMAIN LowerMap THEN LowerMap[c] ELSE c

\* str.lower()
Lower(s) == [i \in 1..Len(s) |-> LowerChar(s[i])]

\* `needle in hay` on str
Contains(needle, hay) ==
    \E i \in 1..(Len(hay) - Len(needle) + 1) :
        \A k \in 1..Len(needle) : hay[i + k - 1] = needle[k]

\* The phrase literals of parse_device_commands.
OnPhrase(d) ==
    CASE d = "led"    -> <<"l", "e", "d", " ", "o", "n">>
      [] d = "fan"    -> <<"f", "a", "n", " ", "o", "n">>
      [] d = "heater" -> <<"h", "e", "a", "t", "e", "r", " ", "o", "n">>
      [] d = "lights" -> <<"l", "i", "g", "h", "t", "s", " ", "o", "n">>

OffPhrase(d) ==
    CASE d = "led"    -> <<"l", "e", "d", " ", "o", "f", "f">>
      [] d = "fan"    -> <<"f", "a", "n", " ", "o", "f", "f">>
      [] d = "heater" -> <<"h", "e", "a", "t", "e", "r", " ", "o", "f", "f">>
      [] d = "lights" -> <<"l", "i", "g", "h", "t", "s", " ", "o", "f", "f">>

\* Pieces the input texts are concatenated from: the eight phrases in mixed
\* case, a separator, and pieces that form a phrase only across a boundary.
Frags ==
    { <<"L", "E", "D", " ", "O", "N">>,
      <<"l", "e", "d", " ", "o", "f", "f">>,
      <<"F", "a", "n", " ", "O", "n">>,
      <<"f", "a", "n", " ", "o", "f", "f">>,
      <<"H", "E", "A", "T", "E", "R", " ", "O", "N">>,
      <<"h", "e", "a", "t", "e", "r", " ", "o", "f", "f">>,
      <<"L", "i", "g", "h", "t", "s", " ", "O", "n">>,
      <<"l", "i", "g", "h", "t", "s", " ", "O", "F", "F">>,
      <<" ", "a", "n", "d", " ">>,
      <<"l", "e", "d", " ", "o">>,
      <<"n">>,
      <<"f", "f">> }

\* Pieces of the replies and error messages of the language-model call.
ReplyFrags ==
    { <<"L", "E", "D", " ", "O", "N">>,
      <<"l", "e", "d", " ", "o", "f", "f">>,
      <<"F", "a", "n", " ", "O", "n">>,
      <<"l", "i", "g", "h", "t", "s", " ", "O", "F", "F">>,
      <<"o", "k">> }

RECURSIVE TextsOf(_, _)
TextsOf(frags, n) ==
    IF n = 0 THEN {<< >>}
    ELSE LET shorter == TextsOf(frags, n - 1)
         IN  shorter \cup {t \o f : t \in shorter, f \in frags}

Texts == TextsOf(Frags, MaxFrags)

Replies == TextsOf(ReplyFrags, MaxReplyFrags)

----------------------------------------------------------------------------
(* parse_device_commands *)

\* commands[key] = value on a dict kept in insertion order
DictSet(dict, key, value) ==
    IF \E i \in 1..Len(dict) : dict[i].device = key
    THEN [i \in 1..Len(dict) |->
            IF dict[i].device = key THEN [device |-> key, state |-> value]
            ELSE dict[i]]
    ELSE Append(dict, [device |-> key, state |-> value])

\* Variant: two independent `if`s, so the OFF test runs after the ON test.
CheckDevice_two_ifs(dict, d, response_lower) ==
    LET on == IF Contains(OnPhrase(d), response_lower)
              THEN DictSet(dict, d, TRUE) ELSE dict
    IN  IF Contains(OffPhrase(d), response_lower)
        THEN DictSet(on, d, FALSE) ELSE on

\* One `if '<d> on' in response_lower: ... elif '<d> off' in response_lower: ...`
CheckDevice(dict, d, response_lower) ==
    IF Contains(OnPhrase(d), response_lower) THEN DictSet(dict, d, TRUE)
    ELSE IF Contains(OffPhrase(d), response_lower) THEN DictSet(dict, d, FALSE)
    ELSE dict

\* Variant: a final `else: commands[d] = False` in every device's test.
parse_device_commands_default_off(response) ==
    LET response_lower == Lower(response)
        Check(dict, d) ==
            IF Contains(OnPhrase(d), response_lower) THEN DictSet(dict, d, TRUE)
            ELSE DictSet(dict, d, FALSE)
    IN  Check(Check(Check(Check(<< >>, "led"), "fan"), "heater"), "lights")

\* Variant: the LIGHTS test stores its result under the key 'light'.
parse_device_commands_typo(response) ==
    LET response_lower == Lower(response)
        c1 == CheckDevice(<< >>, "led", response_lower)
        c2 == CheckDevice(c1, "fan", response_lower)
        c3 == CheckDevice(c2, "heater", response_lower)
    IN  IF Contains(OnPhrase("lights"), response_lower)
        THEN DictSet(c3, "light", TRUE)
        ELSE IF Contains(OffPhrase("lights"), response_lower)
        THEN DictSet(c3, "light", FALSE)
        ELSE c3

\* Index of the first occurrence of a device's ON or OFF phrase.
PhrasePos(d, text) ==
    CHOOSE i \in 1..Len(text) :
        /\ \/ SubSeq(text, i, i + Len(OnPhrase(d)) - 1) = OnPhrase(d)
           \/ SubSeq(text, i, i + Len(OffPhrase(d)) - 1) = OffPhrase(d)
        /\ \A j \in 1..(i - 1) :
            /\ SubSeq(text, j, j + Len(OnPhrase(d)) - 1) # OnPhrase(d)
            /\ SubSeq(text, j, j + Len(OffPhrase(d)) - 1) # OffPhrase(d)

\* Variant: the devices are tested in the order their phrases occur in the
\* text, so the dict's insertion order follows the text.
parse_device_commands_text_order(response) ==
    LET response_lower == Lower(response)
        c1 == CheckDevice(<< >>, "led", response_lower)
        c2 == CheckDevice(c1, "fan", response_lower)
        c3 == CheckDevice(c2, "heater", response_lower)
        c4 == CheckDevice(c3, "lights", response_lower)
        Rank(i) == Cardinality({j \in 1..Len(c4) :
                        PhrasePos(c4[j].device, response_lower)
                            < PhrasePos(c4[i].device, response_lower)}) + 1
    IN  [k \in 1..Len(c4) |-> c4[CHOOSE i \in 1..Len(c4) : Rank(i) = k]]

parse_device_commands(response) ==
    LET response_lower == Lower(response)
        c1 == CheckDevice(<< >>, "led", response_lower)
        c2 == CheckDevice(c1, "fan", response_lower)
        c3 == CheckDevice(c2, "heater", response_lower)
    IN  CheckDevice(c3, "lights", response_lower)

\* dict.keys() and dict lookups
Keys(dict) == [i \in 1..Len(dict) |-> dict[i].device]

KeySet(dict) == {dict[i].device : i \in 1..Len(dict)}

Get(dict, d) == dict[CHOOSE i \in 1..Len(dict) : dict[i].device = d].state

----------------------------------------------------------------------------
(* The extractor on its own: a text is drawn, then parsed. *)

NoCommand == [device |-> "none", state |-> FALSE]

\* A widget of the page, with the device and state of a toggle button.
Widget(w, d, b) == [widget |-> w, device |-> d, state |-> b]

NoWidget == Widget("none", "none", FALSE)

Transient ==
    /\ clicked = NoWidget
    /\ caller = "none"
    /\ sender = "none"
    /\ llm_failed = FALSE
    /\ idx = 0
    /\ cur = NoCommand
    /\ arduino = "none"
    /\ probe_open = FALSE
    /\ session_log = << >>
    /\ attempts = << >>
    /\ outcomes = << >>

InitExtract ==
    /\ pc = "extract"
    /\ ai_response \in Texts
    /\ commands = << >>
    /\ device_states = [d \in Devices |-> FALSE]
    /\ demo_mode = FALSE
    /\ ai_responses = 0
    /\ leaked = 0
    /\ Transient

Extract ==
    /\ pc = "extract"
    /\ commands' = parse_device_commands(ai_response)
    /\ pc' = "extracted"
    /\ UNCHANGED <<clicked, caller, sender, device_states, demo_mode, ai_responses,
                   ai_response, llm_failed, idx, cur, arduino, probe_open, leaked,
                   session_log, attempts, outcomes>>

NextExtract == Extract

SpecExtract == InitExtract /\ [][NextExtract]_vars

----------------------------------------------------------------------------
(* Properties of the extractor *)

Mentions(phrase) == Contains(phrase, Lower(ai_response))

BothPhrases(d) == Mentions(OnPhrase(d)) /\ Mentions(OffPhrase(d))

\* C1 as stated: when a text contains both the ON phrase and the OFF phrase
\* of a device, the command extracted for that device is OFF.
C1_BothPhrasesGiveOff ==
    pc = "extracted" =>
        \A d \in Devices :
            BothPhrases(d) => d \in KeySet(commands) /\ Get(commands, d) = FALSE

\* C1 amended: when a text contains both the ON phrase and the OFF phrase of
\* a device, the command extracted for that device is ON, because the OFF
\* phrase is tested only when the ON phrase is absent.
C1_BothPhrasesGiveOn ==
    pc = "extracted" =>
        \A d \in Devices :
            BothPhrases(d) => d \in KeySet(commands) /\ Get(commands, d) = TRUE

C1_Witness ==
    /\ pc = "extracted"
    /\ \E d \in Devices : BothPhrases(d) /\ d \in KeySet(commands)

\* C4: the extracted device identities are registry keys, no device appears
\* twice, and there are at most as many commands as registry entries.
C4_CommandsWithinRegistry ==
    pc = "extracted" =>
        /\ KeySet(commands) \subseteq Devices
        /\ \A i, j \in 1..Len(commands) :
                commands[i].device = commands[j].device => i = j
        /\ Len(commands) <= Len(Registry)

C4_Witness ==
    /\ pc = "extracted"
    /\ Len(commands) = 3
    /\ "lights" \in KeySet(commands)

\* C5: a device is in the result exactly when its ON phrase or its OFF phrase
\* occurs in the case-folded text; a device with neither phrase is absent.
C5_PresentIffMentioned ==
    pc = "extracted" =>
        \A d \in Devices :
            d \in KeySet(commands) <=> (Mentions(OnPhrase(d)) \/ Mentions(OffPhrase(d)))

C5_Witness ==
    /\ pc = "extracted"
    /\ Mentions(<<"l", "e", "d", " ", "o">>)
    /\ "led" \notin KeySet(commands)
    /\ "fan" \in KeySet(commands)

----------------------------------------------------------------------------
(* The serial transport *)

Event(ev, arg) == [ev |-> ev, arg |-> arg]

\* Sessions that are open right now.
OpenSessions ==
    leaked + (IF probe_open THEN 1 ELSE 0) + (IF arduino = "open" THEN 1 ELSE 0)

\* Where get_arduino_connection returns to.
GacReturnPc(c) ==
    CASE c = "test"   -> "test_ret"
      [] c = "status" -> "status_ret"
      [] c = "send"   -> "send_ret"

\* get_arduino_connection, lines 148-153: the probe connection is opened ...
GacProbe ==
    /\ pc = "gac_probe"
    /\ \E opened \in BOOLEAN :
        IF opened
        THEN /\ probe_open' = TRUE
             /\ pc' = "gac_probe_close"
        ELSE /\ probe_open' = FALSE
             /\ pc' = "gac_open"
    /\ UNCHANGED <<clicked, caller, sender, device_states, demo_mode, ai_responses,
                   ai_response, llm_failed, commands, idx, cur, arduino, leaked,
                   session_log, attempts, outcomes>>

\* ... and closed again, followed by time.sleep(0.5).
GacProbeClose ==
    /\ pc = "gac_probe_close"
    /\ probe_open' = FALSE
    /\ pc' = "gac_open"
    /\ UNCHANGED <<clicked, caller, sender, device_states, demo_mode, ai_responses,
                   ai_response, llm_failed, commands, idx, cur, arduino, leaked,
                   session_log, attempts, outcomes>>

\* get_arduino_connection, line 156 and the except clauses: serial.Serial(...)
\* either gives a session or raises, and then None is returned.
GacOpen ==
    /\ pc = "gac_open"
    /\ \E opened \in BOOLEAN :
        IF opened
        THEN /\ arduino' = "open"
             /\ session_log' = <<Event("open", 0)>>
             /\ pc' = "gac_settle"
        ELSE /\ arduino' = "none"
             /\ session_log' = << >>
             /\ pc' = GacReturnPc(caller)
    /\ UNCHANGED <<clicked, caller, sender, device_states, demo_mode, ai_responses,
                   ai_response, llm_failed, commands, idx, cur, probe_open, leaked,
                   attempts, outcomes>>

\* Variant: the session is returned without time.sleep(2).
GacSettle_no_sleep ==
    /\ pc = "gac_settle"
    /\ pc' = GacReturnPc(caller)
    /\ UNCHANGED <<clicked, caller, sender, device_states, demo_mode, ai_responses,
                   ai_response, llm_failed, commands, idx, cur, arduino, probe_open,
                   leaked, session_log, attempts, outcomes>>

\* get_arduino_connection, lines 157-158: time.sleep(2); return arduino
GacSettle ==
    /\ pc = "gac_settle"
    /\ session_log' = Append(session_log, Event("sleep", SETTLE_SLEEP_MS))
    /\ pc' = GacReturnPc(caller)
    /\ UNCHANGED <<clicked, caller, sender, device_states, demo_mode, ai_responses,
                   ai_response, llm_failed, commands, idx, cur, arduino, probe_open,
                   leaked, attempts, outcomes>>

Digits == <<"0", "1", "2", "3", "4", "5", "6", "7", "8", "9">>

\* str.encode() of a one-digit string: the digit's ASCII code
Encode(ch) == 47 + (CHOOSE i \in 1..10 : Digits[i] = ch)

\* Variant: the fan's ON code is '2', the same as its OFF code.
device_map_fan_same(device, state) ==
    CASE device = "led"    -> IF state THEN "1" ELSE "0"
      [] device = "fan"    -> IF state THEN "2" ELSE "2"
      [] device = "heater" -> IF state THEN "5" ELSE "4"
      [] device = "lights" -> IF state THEN "7" ELSE "6"
      [] OTHER             -> "0"

\* device_map.get(device, '0') of send_arduino_command
device_map(device, state) ==
    CASE device = "led"    -> IF state THEN "1" ELSE "0"
      [] device = "fan"    -> IF state THEN "3" ELSE "2"
      [] device = "heater" -> IF state THEN "5" ELSE "4"
      [] device = "lights" -> IF state THEN "7" ELSE "6"
      [] OTHER             -> "0"

\* What one call of send_arduino_command reported.
Outcome(ret, level, simulated) ==
    [device |-> cur.device, state |-> cur.state, ret |-> ret, level |-> level,
     simulated |-> simulated, events |-> << >>]

\* Variant: an exception of the write leaves send_arduino_command and ends
\* the caller's loop.
SendReturnPc_raise(s, ret) ==
    IF ~ret THEN "end" ELSE IF s = "loop" THEN "loop" ELSE "rerun"

\* Where send_arduino_command returns to: every exception is caught inside.
SendReturnPc(s, ret) == IF s = "loop" THEN "loop" ELSE "rerun"

----------------------------------------------------------------------------
(* send_arduino_command *)

\* lines 223-225: demo mode reports success and opens nothing
SendDemo ==
    /\ pc = "send_start"
    /\ demo_mode
    /\ attempts' = Append(attempts, cur.device)
    /\ outcomes' = Append(outcomes, Outcome(TRUE, "success", TRUE))
    /\ pc' = SendReturnPc(sender, TRUE)
    /\ UNCHANGED <<clicked, caller, sender, device_states, demo_mode, ai_responses,
                   ai_response, llm_failed, commands, idx, cur, arduino, probe_open,
                   leaked, session_log>>

\* line 227: arduino = get_arduino_connection()
SendConnect ==
    /\ pc = "send_start"
    /\ ~demo_mode
    /\ attempts' = Append(attempts, cur.device)
    /\ caller' = "send"
    /\ pc' = "gac_probe"
    /\ UNCHANGED <<clicked, sender, device_states, demo_mode, ai_responses,
                   ai_response, llm_failed, commands, idx, cur, arduino, probe_open,
                   leaked, session_log, outcomes>>

\* lines 251-253: no session; st.warning('... Command simulated ...'); return False
SendNoConnection ==
    /\ pc = "send_ret"
    /\ arduino = "none"
    /\ outcomes' = Append(outcomes, Outcome(FALSE, "warning", TRUE))
    /\ caller' = "none"
    /\ pc' = SendReturnPc(sender, FALSE)
    /\ UNCHANGED <<clicked, sender, device_states, demo_mode, ai_responses,
                   ai_response, llm_failed, commands, idx, cur, arduino, probe_open,
                   leaked, session_log, attempts>>

\* lines 238-239: arduino.write(command.encode())
SendWrite ==
    /\ pc = "send_ret"
    /\ arduino = "open"
    /\ session_log' = Append(session_log,
                             Event("write", Encode(device_map(cur.device, cur.state))))
    /\ pc' = "send_sleep"
    /\ UNCHANGED <<clicked, caller, sender, device_states, demo_mode, ai_responses,
                   ai_response, llm_failed, commands, idx, cur, arduino, probe_open,
                   leaked, attempts, outcomes>>

\* lines 244-250: the write raises; st.error; arduino.close(); return False
SendWriteFails ==
    /\ pc = "send_ret"
    /\ arduino = "open"
    /\ LET log == session_log \o <<Event("write_error", 0), Event("close", 0)>>
       IN  /\ session_log' = log
           /\ outcomes' = Append(outcomes,
                                 [Outcome(FALSE, "error", FALSE) EXCEPT !.events = log])
    /\ arduino' = "none"
    /\ caller' = "none"
    /\ pc' = SendReturnPc(sender, FALSE)
    /\ UNCHANGED <<clicked, sender, device_states, demo_mode, ai_responses,
                   ai_response, llm_failed, commands, idx, cur, probe_open, leaked,
                   attempts>>

\* line 240: time.sleep(0.1)
SendSleep ==
    /\ pc = "send_sleep"
    /\ session_log' = Append(session_log, Event("sleep", WRITE_SLEEP_MS))
    /\ pc' = "send_close"
    /\ UNCHANGED <<clicked, caller, sender, device_states, demo_mode, ai_responses,
                   ai_response, llm_failed, commands, idx, cur, arduino, probe_open,
                   leaked, attempts, outcomes>>

\* lines 241-243: arduino.close(); st.success; return True
SendClose ==
    /\ pc = "send_close"
    /\ LET log == Append(session_log, Event("close", 0))
       IN  /\ session_log' = log
           /\ outcomes' = Append(outcomes,
                                 [Outcome(TRUE, "success", FALSE) EXCEPT !.events = log])
    /\ arduino' = "none"
    /\ caller' = "none"
    /\ pc' = SendReturnPc(sender, TRUE)
    /\ UNCHANGED <<clicked, sender, device_states, demo_mode, ai_responses,
                   ai_response, llm_failed, commands, idx, cur, probe_open, leaked,
                   attempts>>

----------------------------------------------------------------------------
(* The script run: one pass over the script per interaction *)

\* What a user can do between two runs: edit a field ("none"), press
\* 'Test Connection', flip 'Enable Demo Mode', press 'Send Command' with or
\* without a prompt, press 'Clear History', press a device's Turn ON / Turn OFF.
Widgets ==
    {Widget(w, "none", FALSE) : w \in {"none", "test", "demo", "send", "send_empty", "clear"}}
        \cup {Widget("toggle", d, b) : d \in Devices, b \in BOOLEAN}

\* The values a run's local variables have when the run starts.
FreshRun ==
    /\ ai_response' = << >>
    /\ llm_failed' = FALSE
    /\ commands' = << >>
    /\ idx' = 0
    /\ cur' = NoCommand
    /\ caller' = "none"
    /\ sender' = "none"
    /\ arduino' = "none"
    /\ session_log' = << >>
    /\ attempts' = << >>
    /\ outcomes' = << >>

\* An interaction starts a run of the script.
Interact ==
    /\ pc = "idle"
    /\ \E w \in Widgets :
        /\ w.widget = "send" => ai_responses < MaxHistory
        /\ clicked' = w
    /\ pc' = "sidebar_test"
    /\ UNCHANGED <<caller, sender, device_states, demo_mode, ai_responses,
                   ai_response, llm_failed, commands, idx, cur, arduino, probe_open,
                   leaked, session_log, attempts, outcomes>>

\* lines 281-282: 'Test Connection' calls get_arduino_connection(selected_port)
TestConnection ==
    /\ pc = "sidebar_test"
    /\ clicked.widget = "test"
    /\ caller' = "test"
    /\ pc' = "gac_probe"
    /\ UNCHANGED <<clicked, sender, device_states, demo_mode, ai_responses,
                   ai_response, llm_failed, commands, idx, cur, arduino, probe_open,
                   leaked, session_log, attempts, outcomes>>

SkipTestConnection ==
    /\ pc = "sidebar_test"
    /\ clicked.widget # "test"
    /\ pc' = "sidebar_demo"
    /\ UNCHANGED <<clicked, caller, sender, device_states, demo_mode, ai_responses,
                   ai_response, llm_failed, commands, idx, cur, arduino, probe_open,
                   leaked, session_log, attempts, outcomes>>

\* lines 283-287: if test_conn: st.success; test_conn.close()  else: st.error
TestConnectionReturn ==
    /\ pc = "test_ret"
    /\ session_log' = IF arduino = "open"
                      THEN Append(session_log, Event("close", 0))
                      ELSE session_log
    /\ arduino' = "none"
    /\ caller' = "none"
    /\ pc' = "sidebar_demo"
    /\ UNCHANGED <<clicked, sender, device_states, demo_mode, ai_responses,
                   ai_response, llm_failed, commands, idx, cur, probe_open, leaked,
                   attempts, outcomes>>

\* lines 291-303: the demo toggle is read; outside demo mode the connection
\* status is get_arduino_connection() is not None
DemoToggleAndStatus ==
    /\ pc = "sidebar_demo"
    /\ demo_mode' = IF clicked.widget = "demo" THEN ~demo_mode ELSE demo_mode
    /\ IF demo_mode'
       THEN /\ pc' = "main"
            /\ caller' = caller
       ELSE /\ pc' = "gac_probe"
            /\ caller' = "status"
    /\ UNCHANGED <<clicked, sender, device_states, ai_responses, ai_response,
                   llm_failed, commands, idx, cur, arduino, probe_open, leaked,
                   session_log, attempts, outcomes>>

\* line 303: the session the status check opened is never closed by the
\* script; its only reference is dropped. The object's finalizer closes it
\* when the interpreter collects it: at once, or later.
StatusReturn ==
    /\ pc = "status_ret"
    /\ IF arduino = "open"
       THEN \/ leaked' = leaked
            \/ /\ leaked < MaxLeaked
               /\ leaked' = leaked + 1
       ELSE leaked' = leaked
    /\ arduino' = "none"
    /\ caller' = "none"
    /\ pc' = "main"
    /\ UNCHANGED <<clicked, sender, device_states, demo_mode, ai_responses,
                   ai_response, llm_failed, commands, idx, cur, probe_open,
                   session_log, attempts, outcomes>>

\* The interpreter collects an unreferenced session; its finalizer closes it.
Finalize ==
    /\ leaked > 0
    /\ leaked' = leaked - 1
    /\ UNCHANGED <<pc, clicked, caller, sender, device_states, demo_mode,
                   ai_responses, ai_response, llm_failed, commands, idx, cur,
                   arduino, probe_open, session_log, attempts, outcomes>>

----------------------------------------------------------------------------
(* The handlers of the main area *)

AiErrorPrefix == <<"A", "I", " ", "E", "r", "r", "o", "r", ":", " ">>

\* send_ai_prompt: the reply's text, or f"AI Error: {str(e)}" when the call raises
send_ai_prompt(raised, text) == IF raised THEN AiErrorPrefix \o text ELSE text

\* lines 363-374: 'Send Command' with a prompt: the reply (or the error text)
\* is appended to the history and parsed.
SendCommand ==
    /\ pc = "main"
    /\ clicked.widget = "send"
    /\ \E raised \in BOOLEAN, text \in Replies :
        /\ llm_failed' = raised
        /\ ai_response' = send_ai_prompt(raised, text)
    /\ ai_responses' = ai_responses + 1
    /\ commands' = parse_device_commands(ai_response')
    /\ idx' = 0
    /\ pc' = "loop"
    /\ UNCHANGED <<clicked, caller, sender, device_states, demo_mode, cur, arduino,
                   probe_open, leaked, session_log, attempts, outcomes>>

\* Variant: the loop calls send_arduino_command without recording the state.
LoopNext_unrecorded ==
    /\ pc = "loop"
    /\ idx < Len(commands)
    /\ cur' = commands[idx + 1]
    /\ idx' = idx + 1
    /\ sender' = "loop"
    /\ pc' = "send_start"
    /\ UNCHANGED <<clicked, caller, device_states, demo_mode, ai_responses,
                   ai_response, llm_failed, commands, arduino, probe_open, leaked,
                   session_log, attempts, outcomes>>

\* lines 375-377: the next item of commands.items(): the recorded state is
\* set, then send_arduino_command is called.
LoopNext ==
    /\ pc = "loop"
    /\ idx < Len(commands)
    /\ cur' = commands[idx + 1]
    /\ device_states' = [device_states EXCEPT ![cur'.device] = cur'.state]
    /\ idx' = idx + 1
    /\ sender' = "loop"
    /\ pc' = "send_start"
    /\ UNCHANGED <<clicked, caller, demo_mode, ai_responses, ai_response,
                   llm_failed, commands, arduino, probe_open, leaked, session_log,
                   attempts, outcomes>>

\* line 379: the loop is over; st.success('Command processed!')
LoopDone ==
    /\ pc = "loop"
    /\ idx = Len(commands)
    /\ pc' = "end"
    /\ UNCHANGED <<clicked, caller, sender, device_states, demo_mode, ai_responses,
                   ai_response, llm_failed, commands, idx, cur, arduino, probe_open,
                   leaked, session_log, attempts, outcomes>>

\* lines 382-384: 'Clear History' empties the history and reruns the script
ClearHistory ==
    /\ pc = "main"
    /\ clicked.widget = "clear"
    /\ ai_responses' = 0
    /\ clicked' = NoWidget
    /\ pc' = "sidebar_test"
    /\ FreshRun
    /\ UNCHANGED <<device_states, demo_mode, probe_open, leaked>>

\* lines 453-455 and 459-461: Turn ON / Turn OFF sets the recorded state and
\* calls send_arduino_command
ToggleButton ==
    /\ pc = "main"
    /\ clicked.widget = "toggle"
    /\ device_states' = [device_states EXCEPT ![clicked.device] = clicked.state]
    /\ cur' = [device |-> clicked.device, state |-> clicked.state]
    /\ sender' = "button"
    /\ pc' = "send_start"
    /\ UNCHANGED <<clicked, caller, demo_mode, ai_responses, ai_response,
                   llm_failed, commands, idx, arduino, probe_open, leaked,
                   session_log, attempts, outcomes>>

\* lines 456 and 462: st.rerun() after the button's send
Rerun ==
    /\ pc = "rerun"
    /\ clicked' = NoWidget
    /\ pc' = "sidebar_test"
    /\ FreshRun
    /\ UNCHANGED <<device_states, demo_mode, ai_responses, probe_open, leaked>>

\* No handler of the main area runs: nothing was pressed there, or 'Send
\* Command' was pressed with an empty prompt (line 364).
NoHandler ==
    /\ pc = "main"
    /\ clicked.widget \in {"none", "test", "demo", "send_empty"}
    /\ pc' = "end"
    /\ UNCHANGED <<clicked, caller, sender, device_states, demo_mode, ai_responses,
                   ai_response, llm_failed, commands, idx, cur, arduino, probe_open,
                   leaked, session_log, attempts, outcomes>>

\* The script run is over; its local variables are gone.
RunEnd ==
    /\ pc = "end"
    /\ clicked' = NoWidget
    /\ pc' = "idle"
    /\ FreshRun
    /\ UNCHANGED <<device_states, demo_mode, ai_responses, probe_open, leaked>>

\* lines 103-115: the session state of a new browser session
Init ==
    /\ pc = "idle"
    /\ device_states = [d \in Devices |-> FALSE]
    /\ demo_mode = FALSE
    /\ ai_responses = 0
    /\ ai_response = << >>
    /\ commands = << >>
    /\ leaked = 0
    /\ Transient

Next ==
    \/ Interact
    \/ TestConnection
    \/ SkipTestConnection
    \/ TestConnectionReturn
    \/ DemoToggleAndStatus
    \/ StatusReturn
    \/ Finalize
    \/ GacProbe
    \/ GacProbeClose
    \/ GacOpen
    \/ GacSettle
    \/ SendCommand
    \/ LoopNext
    \/ LoopDone
    \/ ClearHistory
    \/ ToggleButton
    \/ Rerun
    \/ NoHandler
    \/ RunEnd
    \/ SendDemo
    \/ SendConnect
    \/ SendNoConnection
    \/ SendWrite
    \/ SendWriteFails
    \/ SendSleep
    \/ SendClose

Spec == Init /\ [][Next]_vars

----------------------------------------------------------------------------
(* Properties of the dispatch and of the transport *)

\* C2 as stated: when the language-model call raised, the dispatch extracts
\* no command, starts no loop iteration (so no recorded device state is
\* set), calls send_arduino_command for no device and opens no port for it.
C2_LlmErrorDispatchesNothing ==
    llm_failed =>
        /\ commands = << >>
        /\ idx = 0
        /\ attempts = << >>
        /\ outcomes = << >>
        /\ caller # "send"

\* An outcome of a send that had no session: demo mode, or the port could
\* not be opened.
NoSession(o) == o.events = << >>

\* C3 as stated: in a dispatch, every send without a session (port not
\* opened, or demo mode) returns success, is reported as a success and is
\* flagged simulated.
C3_UnreachableIsSimulatedSuccess ==
    clicked.widget = "send" =>
        \A i \in 1..Len(outcomes) :
            NoSession(outcomes[i]) =>
                /\ outcomes[i].ret = TRUE
                /\ outcomes[i].simulated
                /\ outcomes[i].level = "success"

\* The byte the wire format assigns: ASCII '0' + 2 * registry index, + 1 for ON.
WireCode(d, b) == 48 + 2 * (RegistryIndex(d) - 1) + (IF b THEN 1 ELSE 0)

Pairs == Devices \X BOOLEAN

\* The table gives the eight pairs eight different bytes between '0' and '7'.
CodesDistinct ==
    \A p, q \in Pairs :
        /\ Encode(device_map(p[1], p[2])) \in 48..55
        /\ p # q => Encode(device_map(p[1], p[2])) # Encode(device_map(q[1], q[2]))

\* C6: every byte send_arduino_command writes for (device, state) is the
\* ASCII digit 2*i for OFF and 2*i+1 for ON, i the device's registry index;
\* the eight pairs have eight different bytes between '0' and '7'.
C6_WireCodes ==
    /\ \A i \in 1..Len(outcomes) :
         \A k \in 1..Len(outcomes[i].events) :
            outcomes[i].events[k].ev = "write" =>
                outcomes[i].events[k].arg = WireCode(outcomes[i].device, outcomes[i].state)
    /\ CodesDistinct

C6_Witness ==
    \E i \in 1..Len(outcomes) :
        /\ outcomes[i].device = "fan"
        /\ outcomes[i].state = TRUE
        /\ \E k \in 1..Len(outcomes[i].events) : outcomes[i].events[k].ev = "write"

\* C7: when the 'Send Command' loop is over, send_arduino_command was called
\* exactly once for every extracted command and has returned an outcome for
\* each, whichever opens and writes failed on the way.
C7_EveryCommandAttempted ==
    (pc = "end" /\ clicked.widget = "send") =>
        /\ attempts = Keys(commands)
        /\ Len(outcomes) = Len(commands)
        /\ \A i \in 1..Len(commands) :
            /\ outcomes[i].device = commands[i].device
            /\ outcomes[i].state = commands[i].state

C7_Witness ==
    /\ pc = "end"
    /\ clicked.widget = "send"
    /\ Len(outcomes) = 2
    /\ outcomes[1].level = "error"
    /\ outcomes[2].level = "warning"

\* C8: the sends of one dispatch are made in registry order (led, fan,
\* heater, lights) and go to extracted devices only, wherever their phrases
\* stand in the reply; at the end every extracted device has had its send.
C8_AttemptsInRegistryOrder ==
    clicked.widget = "send" =>
        /\ \A i, j \in 1..Len(attempts) :
                i < j => RegistryIndex(attempts[i]) < RegistryIndex(attempts[j])
        /\ {attempts[i] : i \in 1..Len(attempts)} \subseteq KeySet(commands)
        /\ pc = "end" => {attempts[i] : i \in 1..Len(attempts)} = KeySet(commands)

C8_Witness ==
    /\ pc = "end"
    /\ clicked.widget = "send"
    /\ attempts = <<"led", "lights">>
    /\ PhrasePos("lights", Lower(ai_response)) < PhrasePos("led", Lower(ai_response))

\* C9 as stated: at most one session is open at any moment, and outside
\* get_arduino_connection and the code that uses its result no session is
\* open: every opener has closed its session before it finishes.
C9_SessionsClosedByOpener ==
    /\ OpenSessions <= 1
    /\ pc \in {"idle", "sidebar_test", "sidebar_demo", "main", "loop",
               "send_start", "rerun", "end"} => OpenSessions = 0

DeliveryEvents(byte) ==
    <<Event("open", 0), Event("sleep", SETTLE_SLEEP_MS), Event("write", byte),
      Event("sleep", WRITE_SLEEP_MS), Event("close", 0)>>

Delivered(o) == o.ret /\ ~o.simulated

\* C10: a delivered command's session saw exactly open, the 2 s sleep, one
\* write of one byte, the 0.1 s sleep, close; on no session is anything
\* written before its 2 s sleep, nor a second time.
C10_DeliveryBracket ==
    /\ \A i \in 1..Len(outcomes) :
         Delivered(outcomes[i]) =>
            \E byte \in 48..55 : outcomes[i].events = DeliveryEvents(byte)
    /\ \A k \in 1..Len(session_log) :
         session_log[k].ev \in {"write", "write_error"} =>
            /\ k = 3
            /\ session_log[1] = Event("open", 0)
            /\ session_log[2] = Event("sleep", SETTLE_SLEEP_MS)

C10_Witness ==
    /\ Len(outcomes) = 2
    /\ Delivered(outcomes[1])
    /\ Delivered(outcomes[2])

\* A step that issues a command: the loop or a toggle button is about to
\* call send_arduino_command.
Issues == pc # "send_start" /\ pc' = "send_start"

\* C11: in the loop and in the toggle buttons the recorded state of the
\* commanded device is the commanded state when send_arduino_command is
\* called; it stays so whatever the send reports (success, failure or
\* simulated); and a recorded state changes only in a step that issues a
\* command, for that command's device, so every other device keeps its state.
C11_RecordedStateFollowsCommands ==
    [][ /\ Issues => device_states'[cur'.device] = cur'.state
        /\ \A i \in 1..Len(outcomes') :
              device_states'[outcomes'[i].device] = outcomes'[i].state
        /\ \A d \in Devices :
              device_states'[d] # device_states[d] =>
                  /\ Issues
                  /\ cur'.device = d
                  /\ cur'.state = device_states'[d]
      ]_vars

C11_Witness ==
    /\ clicked.widget = "send"
    /\ pc = "end"
    /\ Len(outcomes) = 2
    /\ outcomes[1].state = TRUE
    /\ outcomes[1].level = "error"
    /\ device_states[outcomes[1].device] = TRUE
    /\ outcomes[2].level = "warning"
    /\ device_states[outcomes[2].device] = outcomes[2].state
    /\ device_states["heater"] = TRUE

====
